---- MODULE Spec2Model ----
(***************************************************************************)
(* ArthasClient (src/src/client.py): the connection record, connect /      *)
(* disconnect, and the persistent-command orchestration                    *)
(* execute_persistent_command_async.  One action per segment of the        *)
(* coroutine between two awaits: the segment handles the answer of the     *)
(* request it was suspended on and issues the next request.                *)
(***************************************************************************)
EXTENDS Integers, Sequences, FiniteSets, TLC

(* ------------------------------ bounds -------------------------------- *)
MaxPulls == 2
MaxBatchLen == 1
ExtraPullRequests == 1

(* largest number of pull_results requests one invocation of the model may
   issue; above the largest budget, so that requests beyond the budget show *)
MaxPullRequests == MaxPulls + ExtraPullRequests

(* the max_pulls arguments an invocation is called with *)
PullBudgets == (0 - 1)..MaxPulls

(* ------------------------------ values -------------------------------- *)
NoneVal == "None"

SessionIds == {"s1", "s2"}
ConsumerIds == {"c1"}

(* result records of a poll batch: a dict with a type and, for some, a
   statusCode *)
ResultRecords ==
    { [type |-> "result"],
      [type |-> "status", statusCode |-> 0],
      [type |-> "status", statusCode |-> 1] }

RECURSIVE SeqsUpTo(_, _)
SeqsUpTo(S, n) ==
    IF n = 0 THEN { <<>> }
    ELSE LET shorter == SeqsUpTo(S, n - 1)
         IN  shorter \cup { Append(s, x) : s \in { t \in shorter : Len(t) = n - 1 }, x \in S }

(* batches in which the terminal marker comes with another record, before
   it or after it *)
MarkerBatches ==
    { << [type |-> "result"], [type |-> "status", statusCode |-> 0] >>,
      << [type |-> "status", statusCode |-> 0], [type |-> "result"] >> }

Batches == SeqsUpTo(ResultRecords, MaxBatchLen) \cup MarkerBatches

(* what the transport gives back for one POST: an HTTP response with a
   status code and a JSON body, an HTTP 200 whose body is not JSON, a
   network failure raised by httpx, or (polls only) the wait_for timeout *)
HttpError == [kind |-> "http", code |-> 500]
BadJson == [kind |-> "badjson", code |-> 200]
NetworkFailure == [kind |-> "exc", code |-> 0]
PollTimeout == [kind |-> "timeout", code |-> 0]

InitResponses ==
    { [kind |-> "http", code |-> 200, sessionId |-> s, consumerId |-> c] :
        s \in SessionIds \cup {NoneVal, ""}, c \in ConsumerIds \cup {NoneVal} }
    \cup { HttpError, BadJson, NetworkFailure }

ExecResponses ==
    { [kind |-> "http", code |-> 200, state |-> st] :
        st \in {"SCHEDULED", "FAILED", NoneVal} }
    \cup { HttpError, BadJson, NetworkFailure }

PullResponses ==
    { [kind |-> "http", code |-> 200, results |-> b] : b \in Batches }
    \cup { HttpError, BadJson, NetworkFailure, PollTimeout }

(* interrupt_job and close_session: the answer is not looked at, only an
   exception of the POST matters *)
CleanupResponses == { [kind |-> "http", code |-> 200], HttpError, NetworkFailure }

(* --------------------------- command lines ---------------------------- *)
MaxCmdLen == 5

(* a command line is a string, kept as the sequence of its pieces: a piece
   is a word (a maximal run of non-blank characters) or one blank *)
Blank == " "

PERSISTENT_COMMANDS == {"watch", "trace", "tt", "stack", "jfr"}

DEFAULT_COUNTS ==
    [verb \in PERSISTENT_COMMANDS |->
        CASE verb = "watch" -> 5
          [] verb = "trace" -> 3
          [] verb = "tt" -> 10
          [] verb = "stack" -> 3
          [] verb = "jfr" -> 1]

LimitFlag == "-n"

Words == PERSISTENT_COMMANDS \cup {"jvm", LimitFlag, "com.example.*", "get*"}

(* the strings of at most n pieces: two words never touch, they would be
   one word *)
RECURSIVE CmdStringsOfLen(_)
CmdStringsOfLen(n) ==
    IF n = 0 THEN { <<>> }
    ELSE { Append(s, x) : s \in CmdStringsOfLen(n - 1), x \in {Blank} }
         \cup { Append(s, w) : s \in { t \in CmdStringsOfLen(n - 1) :
                                          t = <<>> \/ t[Len(t)] = Blank },
                               w \in Words }

CmdStrings == UNION { CmdStringsOfLen(n) : n \in 0..MaxCmdLen }

(* no command: the variable holds no string *)
NoCommand == << NoneVal, NoneVal >>

(* str.strip().split(): the words of a string, in order *)
Split(s) == SelectSeq(s, LAMBDA x : x # Blank)

(* " ".join(parts) *)
RECURSIVE Join(_)
Join(parts) ==
    IF parts = <<>> THEN <<>>
    ELSE IF Len(parts) = 1 THEN << parts[1] >>
    ELSE << parts[1], Blank >> \o Join(Tail(parts))

(* DEFAULT_COUNTS.get(cmd_name, 3) *)
DefaultCount(cmd_name) ==
    IF cmd_name \in DOMAIN DEFAULT_COUNTS THEN DEFAULT_COUNTS[cmd_name] ELSE 3

(* the normalizer with a slip: the limit is appended after the arguments *)
EnsureLimits_Appends(cmd) ==
    LET parts == Split(cmd) IN
    IF parts = <<>> THEN cmd
    ELSE IF parts[1] \notin PERSISTENT_COMMANDS THEN cmd
    ELSE IF \E i \in 1..Len(parts) : parts[i] = LimitFlag THEN cmd
    ELSE Join(parts \o << LimitFlag, ToString(DefaultCount(parts[1])) >>)

(* the normalizer with a slip: the flag is looked for right after the verb
   only *)
EnsureLimits_SecondWordOnly(cmd) ==
    LET parts == Split(cmd) IN
    IF parts = <<>> THEN cmd
    ELSE IF parts[1] \notin PERSISTENT_COMMANDS THEN cmd
    ELSE IF Len(parts) >= 2 /\ parts[2] = LimitFlag THEN cmd
    ELSE Join(<< parts[1], LimitFlag, ToString(DefaultCount(parts[1])) >> \o Tail(parts))

(* the normalizer with a slip: a command it does not limit is returned
   re-joined from its words instead of as given *)
EnsureLimits_Rejoins(cmd) ==
    LET parts == Split(cmd) IN
    IF parts = <<>> THEN cmd
    ELSE IF parts[1] \notin PERSISTENT_COMMANDS THEN Join(parts)
    ELSE IF \E i \in 1..Len(parts) : parts[i] = LimitFlag THEN cmd
    ELSE Join(<< parts[1], LimitFlag, ToString(DefaultCount(parts[1])) >> \o Tail(parts))

(* the normalizer with a slip: the flag is looked for at the end of the
   line only (parts[-2] == "-n") *)
EnsureLimits_FlagAtEndOnly(cmd) ==
    LET parts == Split(cmd) IN
    IF parts = <<>> THEN cmd
    ELSE IF parts[1] \notin PERSISTENT_COMMANDS THEN cmd
    ELSE IF Len(parts) >= 2 /\ parts[Len(parts) - 1] = LimitFlag THEN cmd
    ELSE Join(<< parts[1], LimitFlag, ToString(DefaultCount(parts[1])) >> \o Tail(parts))

(* _ensure_persistent_command_limits *)
EnsurePersistentCommandLimits(cmd) ==
    LET parts == Split(cmd) IN
    IF parts = <<>> THEN cmd
    ELSE IF parts[1] \notin PERSISTENT_COMMANDS THEN cmd
    ELSE IF \E i \in 1..Len(parts) : parts[i] = LimitFlag THEN cmd
    ELSE Join(<< parts[1], LimitFlag, ToString(DefaultCount(parts[1])) >> \o Tail(parts))

(* the commands execute_persistent_command_async is called with directly *)
AsyncCommands ==
    { << "trace", Blank, "com.example.*", Blank, "get*" >> }

(* the arguments of the one-shot path and of the two wrappers *)
MaxArgs == 2

OneShotCommands == { << "jvm" >>, << "trace" >>, << "watch" >> }

(* an element of args: None, an empty or blank string, or a word *)
ArgValues == { NoneVal, "", Blank, LimitFlag, "get*" }

(* args: None or a list *)
NoArgs == << NoneVal, NoneVal, NoneVal >>
ArgLists == { NoArgs } \cup SeqsUpTo(ArgValues, MaxArgs)

ClassPatterns == { "com.example.*" }
MethodPatterns == { "get*" }
Counts == { 2 }
Expressions == { "returnObj", "{params,returnObj}", "\"{params,returnObj}\"" }

(* max_pulls passed by trace_method and watch_method *)
WrapperMaxPulls == 4

(* '{' in expression and '}' in expression *)
HasBraces(e) == e \in { "{params,returnObj}", "\"{params,returnObj}\"" }

(* expression.startswith('"') and expression.endswith('"') *)
IsQuoted(e) == e = "\"{params,returnObj}\""

(* f'"{expression}"' *)
Quote(e) == IF e = "{params,returnObj}" THEN "\"{params,returnObj}\"" ELSE e

(* the expression preprocessing of watch_method *)
ProcessExpression(e) == IF HasBraces(e) /\ ~IsQuoted(e) THEN Quote(e) ELSE e

(* [arg for arg in args if arg is not None and str(arg).strip()] *)
FilterArgs(args) == SelectSeq(args, LAMBDA x : x \notin { NoneVal, "", Blank })

(* the full command line execute_command builds from command and args,
   before the normalizer *)
BuildFullCommand(cm, args) ==
    IF args = NoArgs \/ args = <<>> THEN cm
    ELSE IF FilterArgs(args) = <<>> THEN cm
    ELSE cm \o << Blank >> \o Join(FilterArgs(args))

(* ----------------------- concurrent invocations ----------------------- *)
MaxInvocations == 2

(* the coroutines of execute_persistent_command_async running on one client *)
Invocations == 1..MaxInvocations

(* the locals of an invocation that has not been called yet *)
IdleInvocation ==
    [pc |-> "idle", max_pulls |-> 0, session_id |-> NoneVal, consumer_id |-> NoneVal,
     pull_count |-> 0, inits |-> 0, terminal |-> "None"]

(* max_pulls of the concurrent invocations: no poll, or one *)
ConcurrentBudgets == 0..1

(* what a poll of a concurrent invocation is answered with *)
ConcurrentPullResponses ==
    { [kind |-> "http", code |-> 200, results |-> b] :
        b \in MarkerBatches \cup { <<>>, << [type |-> "result"] >> } }
    \cup { HttpError, NetworkFailure, PollTimeout }

(* the ids the server gives to its n-th session: the server never issues an
   id twice *)
SessionName(n) == "s" \o ToString(n)
ConsumerName(n) == "c" \o ToString(n)

(* ------------------- connect and disconnect as tasks ------------------ *)
MaxConnTasks == 3

(* the coroutines of connect() and disconnect() running on one client *)
ConnTasks == 1..MaxConnTasks

(* a task that has not been called: no position, no Response *)
IdleTask == [pc |-> "idle", status |-> NoneVal]

(* ------------------------------ state --------------------------------- *)
VARIABLES
    is_connected,   \* connection.is_connected
    conn_session_id,\* connection.session_id
    client_open,    \* self._client is not None
    pc,             \* position of the one invocation in flight
    max_pulls,      \* argument max_pulls
    session_id,     \* local session_id
    consumer_id,    \* local consumer_id
    all_results,    \* local all_results
    pull_count,     \* local pull_count
    response,       \* ArthasResponse returned by the last operation
    terminal,       \* how the orchestration ended: Completed/Exhausted/Failed
    command,        \* argument command of the operation in flight
    full_command,   \* local full_command of execute_command
    call_args,      \* argument args of the execute_command in flight
    requests,       \* requests POSTed by the invocation, in order
    answers,        \* what the transport gave back, answers[i] for requests[i]
    invocations,    \* the locals of each of the concurrent invocations
    server_sessions,\* server side: server_sessions[n] is the invocation whose
                    \* init_session was answered with the n-th session
    sent,           \* requests POSTed by the concurrent invocations
    conn_tasks      \* the connect() and disconnect() coroutines in flight

vars == << is_connected, conn_session_id, client_open, pc, max_pulls, session_id, consumer_id,
           all_results, pull_count, command, full_command, call_args, response, terminal,
           requests, answers, invocations, server_sessions, sent, conn_tasks >>

conn == << is_connected, conn_session_id, client_open >>
locals == << max_pulls, session_id, consumer_id, all_results, pull_count, command,
            full_command, call_args >>
concurrent == << invocations, server_sessions, sent >>
vars_sequential == << conn, pc, locals, response, terminal, requests, answers >>

(* ----------------------------- responses ------------------------------ *)
NoMessage == [text |-> NoneVal, n |-> 0]
NoData == [present |-> FALSE, results |-> <<>>, async_execution |-> FALSE]
NoError == [prefix |-> NoneVal, cause |-> NoneVal]

NoResponse == [status |-> "none", message |-> NoMessage, data |-> NoData, error |-> NoError]

(* ErrorResponse with a slip: the text goes to message, error stays None *)
ErrorResponse_TextInMessage(prefix, cause) ==
    [status |-> "error", message |-> [text |-> prefix, n |-> 0], data |-> [present |-> FALSE, results |-> <<>>, async_execution |-> FALSE],
     error |-> [prefix |-> NoneVal, cause |-> NoneVal]]

ErrorResponse(prefix, cause) ==
    [status |-> "error", message |-> NoMessage, data |-> NoData,
     error |-> [prefix |-> prefix, cause |-> cause]]

NotConnectedResponse ==
    ErrorResponse("Not connected to Arthas, please call connect first", NoneVal)

(* the except block of execute_persistent_command_async *)
AsyncFailedResponse(cause) == ErrorResponse("Async command execution failed", cause)

(* OutcomeResponse with a slip: success only when the aggregate holds the
   terminal marker, a partial result reported as "nothing received" *)
OutcomeResponse_MarkerOnly(results) ==
    IF \E i \in 1..Len(results) : results[i] = [type |-> "status", statusCode |-> 0]
    THEN [status |-> "success",
          message |-> [text |-> "executed with results (async mode)", n |-> Len(results)],
          data |-> [present |-> TRUE, results |-> results, async_execution |-> TRUE],
          error |-> [prefix |-> NoneVal, cause |-> NoneVal]]
    ELSE [status |-> "warning",
          message |-> [text |-> "executed but no results received", n |-> 0],
          data |-> [present |-> TRUE, results |-> <<>>, async_execution |-> TRUE],
          error |-> [prefix |-> NoneVal, cause |-> NoneVal]]

(* OutcomeResponse with a slip: a single record is taken for noise
   (len(all_results) > 1) *)
OutcomeResponse_NeedsTwoRecords(results) ==
    IF Len(results) > 1
    THEN [status |-> "success",
          message |-> [text |-> "executed with results (async mode)", n |-> Len(results)],
          data |-> [present |-> TRUE, results |-> results, async_execution |-> TRUE],
          error |-> [prefix |-> NoneVal, cause |-> NoneVal]]
    ELSE [status |-> "warning",
          message |-> [text |-> "executed but no results received", n |-> 0],
          data |-> [present |-> TRUE, results |-> <<>>, async_execution |-> TRUE],
          error |-> [prefix |-> NoneVal, cause |-> NoneVal]]

(* step 6 of execute_persistent_command_async: the Response built from
   all_results once the cleanup is over *)
OutcomeResponse(results) ==
    IF results # <<>>
    THEN [status |-> "success",
          message |-> [text |-> "executed with results (async mode)", n |-> Len(results)],
          data |-> [present |-> TRUE, results |-> results, async_execution |-> TRUE],
          error |-> NoError]
    ELSE [status |-> "warning",
          message |-> [text |-> "executed but no results received", n |-> 0],
          data |-> [present |-> TRUE, results |-> <<>>, async_execution |-> TRUE],
          error |-> NoError]

(* ------------------------------ requests ------------------------------ *)
Request(action, sid, cid) == [action |-> action, sessionId |-> sid, consumerId |-> cid]

InitRequest == Request("init_session", NoneVal, NoneVal)
ExecRequest(sid, cmd) ==
    [action |-> "async_exec", sessionId |-> sid, consumerId |-> NoneVal, command |-> cmd]
PullRequest(sid, cid) == Request("pull_results", sid, cid)
InterruptRequest(sid) == Request("interrupt_job", sid, NoneVal)
CloseRequest(sid) == Request("close_session", sid, NoneVal)

(* the exec request of the one-shot path; the sessionId is sent only when
   the connection record holds one *)
OneShotRequest(cmd, sid) ==
    [action |-> "exec", sessionId |-> sid, consumerId |-> NoneVal, command |-> cmd]

(* number of requests of one action in a log *)
CountOf(log, action) == Cardinality({ i \in 1..Len(log) : log[i].action = action })

(* --------------------- handling of the answers ------------------------ *)
(* Python truthiness of an optional string: None and "" are falsy *)
Falsy(x) == x = NoneVal \/ x = ""

NoFailure == "no failure"

(* InitFailure with a slip: only the sessionId is required *)
InitFailure_SessionOnly(r) ==
    IF r.kind = "exc" THEN "network failure"
    ELSE IF r.code # 200 THEN "Failed to create session: HTTP"
    ELSE IF r.kind = "badjson" THEN "JSONDecodeError"
    ELSE IF Falsy(r.sessionId) THEN "Failed to get session info"
    ELSE NoFailure

(* the exception raised while handling the answer of init_session, or
   NoFailure *)
InitFailure(r) ==
    IF r.kind = "exc" THEN "network failure"
    ELSE IF r.code # 200 THEN "Failed to create session: HTTP"
    ELSE IF r.kind = "badjson" THEN "JSONDecodeError"
    ELSE IF Falsy(r.sessionId) \/ Falsy(r.consumerId) THEN "Failed to get session info"
    ELSE NoFailure

(* the exception raised while handling the answer of async_exec, or
   NoFailure *)
ExecFailure(r) ==
    IF r.kind = "exc" THEN "network failure"
    ELSE IF r.code # 200 THEN "Failed to execute command: HTTP"
    ELSE IF r.kind = "badjson" THEN "JSONDecodeError"
    ELSE IF r.state # "SCHEDULED" THEN "Command not scheduled"
    ELSE NoFailure

(* IsTerminalMarker with a slip: the statusCode is not looked at, any
   status record ends the polling *)
IsTerminalMarker_AnyStatus(rec) == rec.type = "status"

(* result.get("type") == "status" and result.get("statusCode") == 0 *)
IsTerminalMarker(rec) ==
    /\ rec.type = "status"
    /\ "statusCode" \in DOMAIN rec
    /\ rec.statusCode = 0

(* the for/else scan of one batch: TRUE when the for loop breaks *)
HasTerminalMarker(results) ==
    \E i \in 1..Len(results) : IsTerminalMarker(results[i])

(* PullStep with a slip: the terminal marker does not leave the loop, the
   batch counts as one more interim attempt *)
PullStep_NoBreak(r, all, cnt) ==
    IF r.kind = "timeout"
    THEN [all |-> all, cnt |-> cnt + 1, next |-> "continue", cause |-> NoFailure]
    ELSE IF r.kind = "exc"
    THEN [all |-> all, cnt |-> cnt, next |-> "raise", cause |-> "network failure"]
    ELSE IF r.code # 200
    THEN [all |-> all, cnt |-> cnt, next |-> "continue", cause |-> NoFailure]
    ELSE IF r.kind = "badjson"
    THEN [all |-> all, cnt |-> cnt, next |-> "raise", cause |-> "JSONDecodeError"]
    ELSE IF r.results # <<>>
    THEN [all |-> all \o r.results, cnt |-> cnt + 1, next |-> "continue", cause |-> NoFailure]
    ELSE [all |-> all, cnt |-> cnt + 1, next |-> "continue", cause |-> NoFailure]

(* PullStep with a slip: the wait_for timeout is not caught by the inner
   except and reaches the outer one *)
PullStep_TimeoutRaises(r, all, cnt) ==
    IF r.kind = "timeout"
    THEN [all |-> all, cnt |-> cnt, next |-> "raise", cause |-> "TimeoutError"]
    ELSE IF r.kind = "exc"
    THEN [all |-> all, cnt |-> cnt, next |-> "raise", cause |-> "network failure"]
    ELSE IF r.code # 200
    THEN [all |-> all, cnt |-> cnt, next |-> "continue", cause |-> NoFailure]
    ELSE IF r.kind = "badjson"
    THEN [all |-> all, cnt |-> cnt, next |-> "raise", cause |-> "JSONDecodeError"]
    ELSE IF r.results # <<>>
    THEN IF HasTerminalMarker(r.results)
         THEN [all |-> all \o r.results, cnt |-> cnt, next |-> "break", cause |-> NoFailure]
         ELSE [all |-> all \o r.results, cnt |-> cnt + 1, next |-> "continue", cause |-> NoFailure]
    ELSE [all |-> all, cnt |-> cnt + 1, next |-> "continue", cause |-> NoFailure]

(* PullStep with a slip: a new batch is put in front of the aggregate
   (all_results = results + all_results) *)
PullStep_Prepends(r, all, cnt) ==
    IF r.kind = "timeout"
    THEN [all |-> all, cnt |-> cnt + 1, next |-> "continue", cause |-> NoFailure]
    ELSE IF r.kind = "exc"
    THEN [all |-> all, cnt |-> cnt, next |-> "raise", cause |-> "network failure"]
    ELSE IF r.code # 200
    THEN [all |-> all, cnt |-> cnt, next |-> "continue", cause |-> NoFailure]
    ELSE IF r.kind = "badjson"
    THEN [all |-> all, cnt |-> cnt, next |-> "raise", cause |-> "JSONDecodeError"]
    ELSE IF r.results # <<>>
    THEN IF HasTerminalMarker(r.results)
         THEN [all |-> r.results \o all, cnt |-> cnt, next |-> "break", cause |-> NoFailure]
         ELSE [all |-> r.results \o all, cnt |-> cnt + 1, next |-> "continue", cause |-> NoFailure]
    ELSE [all |-> all, cnt |-> cnt + 1, next |-> "continue", cause |-> NoFailure]

(* PullStep with a slip: the scan appends record by record and breaks at the
   marker, the records behind the marker are lost *)
PullStep_CutsAtMarker(r, all, cnt) ==
    IF r.kind = "timeout"
    THEN [all |-> all, cnt |-> cnt + 1, next |-> "continue", cause |-> NoFailure]
    ELSE IF r.kind = "exc"
    THEN [all |-> all, cnt |-> cnt, next |-> "raise", cause |-> "network failure"]
    ELSE IF r.code # 200
    THEN [all |-> all, cnt |-> cnt, next |-> "continue", cause |-> NoFailure]
    ELSE IF r.kind = "badjson"
    THEN [all |-> all, cnt |-> cnt, next |-> "raise", cause |-> "JSONDecodeError"]
    ELSE IF r.results # <<>>
    THEN IF HasTerminalMarker(r.results)
         THEN [all |-> all \o SubSeq(r.results, 1,
                                       CHOOSE k \in 1..Len(r.results) :
                                           /\ IsTerminalMarker(r.results[k])
                                           /\ \A j \in 1..(k - 1) : ~IsTerminalMarker(r.results[j])), cnt |-> cnt, next |-> "break", cause |-> NoFailure]
         ELSE [all |-> all \o r.results, cnt |-> cnt + 1, next |-> "continue", cause |-> NoFailure]
    ELSE [all |-> all, cnt |-> cnt + 1, next |-> "continue", cause |-> NoFailure]

(* the body of the while loop after the await: what one answer to
   pull_results does to all_results and pull_count, and how the iteration
   ends: "continue" (back to the loop test), "break" or "raise" *)
PullStep(r, all, cnt) ==
    IF r.kind = "timeout"
    THEN [all |-> all, cnt |-> cnt + 1, next |-> "continue", cause |-> NoFailure]
    ELSE IF r.kind = "exc"
    THEN [all |-> all, cnt |-> cnt, next |-> "raise", cause |-> "network failure"]
    ELSE IF r.code # 200
    THEN [all |-> all, cnt |-> cnt, next |-> "continue", cause |-> NoFailure]
    ELSE IF r.kind = "badjson"
    THEN [all |-> all, cnt |-> cnt, next |-> "raise", cause |-> "JSONDecodeError"]
    ELSE IF r.results # <<>>
    THEN IF HasTerminalMarker(r.results)
         THEN [all |-> all \o r.results, cnt |-> cnt, next |-> "break", cause |-> NoFailure]
         ELSE [all |-> all \o r.results, cnt |-> cnt + 1, next |-> "continue", cause |-> NoFailure]
    ELSE [all |-> all, cnt |-> cnt + 1, next |-> "continue", cause |-> NoFailure]

(* LoopTest with a slip: off by one *)
LoopTest_OffByOne(cnt, mp) == cnt <= mp

(* LoopTest with a slip: the loop body runs once before the budget is
   looked at *)
LoopTest_AtLeastOnce(cnt, mp) == cnt = 0 \/ cnt < mp

(* while pull_count < max_pulls *)
LoopTest(cnt, mp) == cnt < mp

(* CleanupSwallows with a slip: no inner except, the exception of the POST
   reaches the outer except block *)
CleanupSwallows_Propagates(r) == r.kind # "exc"

(* the except blocks around interrupt_job and close_session: TRUE when the
   exception of the POST is swallowed and the coroutine goes on *)
CleanupSwallows(r) == TRUE

(* ------------------------------- Init --------------------------------- *)
(* ArthasClient.__init__: not connected, no HTTP client, no invocation *)
IdleClient ==
    /\ is_connected = FALSE
    /\ conn_session_id = NoneVal
    /\ client_open = FALSE
    /\ pc = "idle"
    /\ max_pulls = 0
    /\ session_id = NoneVal
    /\ consumer_id = NoneVal
    /\ all_results = <<>>
    /\ pull_count = 0
    /\ response = NoResponse
    /\ terminal = "None"
    /\ full_command = NoCommand
    /\ call_args = NoArgs
    /\ invocations = [i \in Invocations |-> IdleInvocation]
    /\ server_sessions = <<>>
    /\ sent = {}
    /\ conn_tasks = [t \in ConnTasks |-> IdleTask]
    /\ requests = <<>>
    /\ answers = <<>>

Init ==
    /\ IdleClient
    /\ command = NoCommand

(* ------------------------ connect / disconnect ------------------------ *)
HealthResponses == { [kind |-> "http", code |-> 200], HttpError, BadJson, NetworkFailure }

ConnectedResponse ==
    [status |-> "success", message |-> [text |-> "Connected to Arthas WebConsole", n |-> 0],
     data |-> [present |-> TRUE, results |-> <<>>, async_execution |-> FALSE],
     error |-> NoError]

DisconnectedResponse ==
    [status |-> "success", message |-> [text |-> "Disconnected from Arthas", n |-> 0],
     data |-> NoData, error |-> NoError]

(* connect(): an old client is disconnected first, a new AsyncClient is
   created, and the health check decides is_connected *)
Connect ==
    \E r \in HealthResponses, closeOk \in BOOLEAN :
        /\ pc = "idle"
        /\ client_open' = TRUE
        /\ conn_session_id' = IF client_open /\ closeOk THEN NoneVal ELSE conn_session_id
        /\ IF r.kind = "http" /\ r.code = 200
           THEN /\ is_connected' = TRUE
                /\ response' = ConnectedResponse
           ELSE /\ is_connected' = FALSE
                /\ response' = ErrorResponse("Connection failed", r.kind)
        /\ UNCHANGED << pc, locals, terminal, requests, answers >>
        /\ UNCHANGED concurrent
        /\ UNCHANGED conn_tasks

(* disconnect(): aclose() of the client may raise, and then nothing is reset *)
Disconnect ==
    \E closeOk \in BOOLEAN :
        /\ pc = "idle"
        /\ IF client_open /\ ~closeOk
           THEN /\ response' = ErrorResponse("Failed to disconnect", "exc")
                /\ UNCHANGED conn
           ELSE /\ client_open' = FALSE
                /\ is_connected' = FALSE
                /\ conn_session_id' = NoneVal
                /\ response' = DisconnectedResponse
        /\ UNCHANGED << pc, locals, terminal, requests, answers >>
        /\ UNCHANGED concurrent
        /\ UNCHANGED conn_tasks

(* Fail with a slip: the except clause names the transport errors only, any
   other exception leaves the coroutine and no Response is returned *)
Fail_Escapes(cause) ==
    /\ response' = IF cause = "network failure" THEN AsyncFailedResponse(cause) ELSE NoResponse
    /\ terminal' = IF cause = "network failure" THEN "Failed" ELSE "Escaped"
    /\ pc' = "done"

(* ---------------- execute_persistent_command_async -------------------- *)
(* the except Exception block: the invocation returns the error Response *)
Fail(cause) ==
    /\ response' = AsyncFailedResponse(cause)
    /\ terminal' = "Failed"
    /\ pc' = "done"

(* EnterLoop with a slip: the two cleanup requests are swapped, the loop is
   left with close_session *)
EnterLoop_CloseFirst(reqs, cnt, how) ==
    IF how = "continue" /\ LoopTest(cnt, max_pulls)
    THEN /\ CountOf(reqs, "pull_results") < MaxPullRequests
         /\ requests' = Append(reqs, PullRequest(session_id, consumer_id))
         /\ pc' = "await_pull"
         /\ UNCHANGED terminal
    ELSE /\ requests' = Append(reqs, CloseRequest(session_id))
         /\ pc' = "await_interrupt"
         /\ terminal' = IF how = "break" THEN "Completed" ELSE "Exhausted"

(* the top of the while loop, entered with the given pull_count: either the
   next pull_results is POSTed, or the loop is left and interrupt_job is
   POSTed.  reqs is the log so far. *)
EnterLoop(reqs, cnt, how) ==
    IF how = "continue" /\ LoopTest(cnt, max_pulls)
    THEN /\ CountOf(reqs, "pull_results") < MaxPullRequests
         /\ requests' = Append(reqs, PullRequest(session_id, consumer_id))
         /\ pc' = "await_pull"
         /\ UNCHANGED terminal
    ELSE /\ requests' = Append(reqs, InterruptRequest(session_id))
         /\ pc' = "await_interrupt"
         /\ terminal' = IF how = "break" THEN "Completed" ELSE "Exhausted"

(* CallWith with a slip: the connection check looks at the HTTP client
   handle only *)
CallWith_ChecksHandleOnly(cmd, mp) ==
        /\ pc = "idle"
        /\ command' = cmd
        /\ max_pulls' = mp
        /\ session_id' = NoneVal
        /\ consumer_id' = NoneVal
        /\ all_results' = <<>>
        /\ pull_count' = 0
        /\ answers' = <<>>
        /\ IF ~client_open
           THEN /\ response' = NotConnectedResponse
                /\ terminal' = "NotStarted"
                /\ requests' = <<>>
                /\ pc' = "done"
           ELSE /\ response' = NoResponse
                /\ terminal' = "None"
                /\ requests' = << InitRequest >>
                /\ pc' = "await_init"
        /\ UNCHANGED << conn, full_command, call_args >>
        /\ UNCHANGED concurrent
        /\ UNCHANGED conn_tasks

(* the call with its arguments: the connection check, then init_session is
   POSTed *)
CallWith(cmd, mp) ==
        /\ pc = "idle"
        /\ command' = cmd
        /\ max_pulls' = mp
        /\ session_id' = NoneVal
        /\ consumer_id' = NoneVal
        /\ all_results' = <<>>
        /\ pull_count' = 0
        /\ answers' = <<>>
        /\ IF ~is_connected \/ ~client_open
           THEN /\ response' = NotConnectedResponse
                /\ terminal' = "NotStarted"
                /\ requests' = <<>>
                /\ pc' = "done"
           ELSE /\ response' = NoResponse
                /\ terminal' = "None"
                /\ requests' = << InitRequest >>
                /\ pc' = "await_init"
        /\ UNCHANGED << conn, full_command, call_args >>
        /\ UNCHANGED concurrent
        /\ UNCHANGED conn_tasks

(* execute_persistent_command_async called by a user of the client *)
Call ==
    \E cmd \in AsyncCommands, mp \in PullBudgets : CallWith(cmd, mp)

(* InitAnswered with a slip: the new session is also stored in the
   connection record (self.connection.session_id = session_id) *)
InitAnswered_StoresSession ==
    \E r \in InitResponses :
        /\ pc = "await_init"
        /\ answers' = Append(answers, r)
        /\ IF InitFailure(r) # NoFailure
           THEN /\ Fail(InitFailure(r))
                /\ UNCHANGED conn_session_id
                /\ UNCHANGED << session_id, consumer_id, requests >>
           ELSE /\ session_id' = r.sessionId
                /\ conn_session_id' = r.sessionId
                /\ consumer_id' = r.consumerId
                /\ requests' = Append(requests, ExecRequest(r.sessionId, command))
                /\ pc' = "await_exec"
                /\ UNCHANGED << response, terminal >>
        /\ UNCHANGED << is_connected, client_open, max_pulls, all_results, pull_count, command, full_command, call_args >>
        /\ UNCHANGED concurrent
        /\ UNCHANGED conn_tasks

(* init_session answered: session_id and consumer_id are read and
   async_exec is POSTed *)
InitAnswered ==
    \E r \in InitResponses :
        /\ pc = "await_init"
        /\ answers' = Append(answers, r)
        /\ IF InitFailure(r) # NoFailure
           THEN /\ Fail(InitFailure(r))
                /\ UNCHANGED << session_id, consumer_id, requests >>
           ELSE /\ session_id' = r.sessionId
                /\ consumer_id' = r.consumerId
                /\ requests' = Append(requests, ExecRequest(r.sessionId, command))
                /\ pc' = "await_exec"
                /\ UNCHANGED << response, terminal >>
        /\ UNCHANGED << conn, max_pulls, all_results, pull_count, command, full_command, call_args >>
        /\ UNCHANGED concurrent
        /\ UNCHANGED conn_tasks

(* async_exec answered: all_results and pull_count are initialised and the
   while loop is entered *)
ExecAnswered ==
    \E r \in ExecResponses :
        /\ pc = "await_exec"
        /\ answers' = Append(answers, r)
        /\ IF ExecFailure(r) # NoFailure
           THEN /\ Fail(ExecFailure(r))
                /\ UNCHANGED << all_results, pull_count, requests >>
           ELSE /\ all_results' = <<>>
                /\ pull_count' = 0
                /\ EnterLoop(requests, 0, "continue")
                /\ UNCHANGED response
        /\ UNCHANGED << conn, max_pulls, session_id, consumer_id, command, full_command, call_args >>
        /\ UNCHANGED concurrent
        /\ UNCHANGED conn_tasks

(* pull_results answered (or timed out): one iteration of the while loop *)
PullAnswered ==
    \E r \in PullResponses :
        LET step == PullStep(r, all_results, pull_count) IN
        /\ pc = "await_pull"
        /\ answers' = Append(answers, r)
        /\ all_results' = step.all
        /\ pull_count' = step.cnt
        /\ IF step.next = "raise"
           THEN /\ Fail(step.cause)
                /\ UNCHANGED requests
           ELSE /\ EnterLoop(requests, step.cnt, step.next)
                /\ UNCHANGED response
        /\ UNCHANGED << conn, max_pulls, session_id, consumer_id, command, full_command, call_args >>
        /\ UNCHANGED concurrent
        /\ UNCHANGED conn_tasks

(* interrupt_job answered or failed: close_session is POSTed *)
InterruptAnswered ==
    \E r \in CleanupResponses :
        /\ pc = "await_interrupt"
        /\ answers' = Append(answers, r)
        /\ IF r.kind = "exc" /\ ~CleanupSwallows(r)
           THEN /\ Fail("network failure")
                /\ UNCHANGED requests
           ELSE /\ requests' = Append(requests, CloseRequest(session_id))
                /\ pc' = "await_close"
                /\ UNCHANGED << response, terminal >>
        /\ UNCHANGED << conn, locals >>
        /\ UNCHANGED concurrent
        /\ UNCHANGED conn_tasks

(* close_session answered or failed: the Response is built and returned *)
CloseAnswered ==
    \E r \in CleanupResponses :
        /\ pc = "await_close"
        /\ answers' = Append(answers, r)
        /\ IF r.kind = "exc" /\ ~CleanupSwallows(r)
           THEN Fail("network failure")
           ELSE /\ response' = OutcomeResponse(all_results)
                /\ pc' = "done"
                /\ UNCHANGED terminal
        /\ UNCHANGED << conn, locals, requests >>
        /\ UNCHANGED concurrent
        /\ UNCHANGED conn_tasks

(* the caller has the Response; the client is free for the next operation *)
Return ==
    /\ pc = "done"
    /\ pc' = "idle"
    /\ max_pulls' = 0
    /\ session_id' = NoneVal
    /\ consumer_id' = NoneVal
    /\ all_results' = <<>>
    /\ pull_count' = 0
    /\ command' = NoCommand
    /\ full_command' = NoCommand
    /\ call_args' = NoArgs
    /\ terminal' = "None"
    /\ requests' = <<>>
    /\ answers' = <<>>
    /\ UNCHANGED << conn, response >>
    /\ UNCHANGED concurrent
    /\ UNCHANGED conn_tasks

(* the normalizer applied to a command line *)
Normalize ==
    /\ pc = "idle"
    /\ command # NoCommand
    /\ full_command' = EnsurePersistentCommandLimits(command)
    /\ pc' = "normalized"
    /\ UNCHANGED << conn, max_pulls, session_id, consumer_id, all_results, pull_count,
                    command, call_args, response, terminal, requests, answers >>
    /\ UNCHANGED concurrent
    /\ UNCHANGED conn_tasks

(* ------------------------- execute_command --------------------------- *)
OneShotResponses == { [kind |-> "http", code |-> 200], HttpError, BadJson, NetworkFailure }

CommandExecutedResponse ==
    [status |-> "success", message |-> [text |-> "executed successfully", n |-> 0],
     data |-> [present |-> TRUE, results |-> <<>>, async_execution |-> FALSE],
     error |-> NoError]

(* ExecuteCommandWith with a slip: the normalizer is applied to the command
   before the args are joined to it *)
ExecuteCommandWith_NormalizesVerb(cm, args) ==
    /\ pc = "idle"
    /\ command' = cm
    /\ call_args' = args
    /\ answers' = <<>>
    /\ IF ~is_connected \/ ~client_open
       THEN /\ response' = NotConnectedResponse
            /\ terminal' = "NotStarted"
            /\ requests' = <<>>
            /\ full_command' = NoCommand
            /\ pc' = "done"
       ELSE /\ response' = NoResponse
            /\ terminal' = "None"
            /\ full_command' = BuildFullCommand(EnsurePersistentCommandLimits(cm), args)
            /\ requests' = << OneShotRequest(BuildFullCommand(EnsurePersistentCommandLimits(cm), args),
                                             conn_session_id) >>
            /\ pc' = "await_oneshot"
    /\ UNCHANGED << conn, max_pulls, session_id, consumer_id, all_results, pull_count >>
    /\ UNCHANGED concurrent
    /\ UNCHANGED conn_tasks

(* execute_command(command, args) up to its POST: the connection check, the
   full command line, the normalizer, the exec request *)
ExecuteCommandWith(cm, args) ==
    /\ pc = "idle"
    /\ command' = cm
    /\ call_args' = args
    /\ answers' = <<>>
    /\ IF ~is_connected \/ ~client_open
       THEN /\ response' = NotConnectedResponse
            /\ terminal' = "NotStarted"
            /\ requests' = <<>>
            /\ full_command' = NoCommand
            /\ pc' = "done"
       ELSE /\ response' = NoResponse
            /\ terminal' = "None"
            /\ full_command' = EnsurePersistentCommandLimits(BuildFullCommand(cm, args))
            /\ requests' = << OneShotRequest(EnsurePersistentCommandLimits(BuildFullCommand(cm, args)),
                                             conn_session_id) >>
            /\ pc' = "await_oneshot"
    /\ UNCHANGED << conn, max_pulls, session_id, consumer_id, all_results, pull_count >>
    /\ UNCHANGED concurrent
    /\ UNCHANGED conn_tasks

(* execute_command called by a user of the client *)
ExecuteCommand ==
    \E cm \in OneShotCommands, args \in ArgLists : ExecuteCommandWith(cm, args)

(* the exec request answered: HTTP 200 is a success whatever the body, any
   other status and any exception give the error Response *)
OneShotAnswered ==
    \E r \in OneShotResponses :
        /\ pc = "await_oneshot"
        /\ answers' = Append(answers, r)
        /\ response' = IF r.kind # "exc" /\ r.code = 200
                       THEN CommandExecutedResponse
                       ELSE ErrorResponse("Command execution failed", r.kind)
        /\ pc' = "done"
        /\ UNCHANGED << conn, locals, terminal, requests >>
        /\ UNCHANGED concurrent
        /\ UNCHANGED conn_tasks

(* trace_method: the command always carries -n count; the asynchronous mode
   goes through the orchestration, the synchronous one through
   execute_command *)
TraceMethod ==
    \E cp \in ClassPatterns, mt \in MethodPatterns, count \in Counts, async_mode \in BOOLEAN :
        LET args == << cp, mt, LimitFlag, ToString(count) >> IN
        IF async_mode
        THEN CallWith(<< "trace", Blank >> \o Join(args), WrapperMaxPulls)
        ELSE ExecuteCommandWith(<< "trace" >>, args)

(* watch_method: as trace_method, with the preprocessed expression *)
WatchMethod ==
    \E cp \in ClassPatterns, mt \in MethodPatterns, e \in Expressions, count \in Counts,
       async_mode \in BOOLEAN :
        LET args == << cp, mt, ProcessExpression(e), LimitFlag, ToString(count) >> IN
        IF async_mode
        THEN CallWith(<< "watch", Blank >> \o Join(args), WrapperMaxPulls)
        ELSE ExecuteCommandWith(<< "watch" >>, args)

(* the task running the invocation is cancelled while it is suspended on a
   request: CancelledError is not an Exception, so neither the inner nor the
   outer except block catches it, and the coroutine is left at once *)
Cancel ==
    /\ pc \in {"await_init", "await_exec", "await_pull", "await_interrupt", "await_close"}
    /\ pc' = "done"
    /\ terminal' = "Cancelled"
    /\ response' = NoResponse
    /\ UNCHANGED << conn, locals, requests, answers >>
    /\ UNCHANGED concurrent
    /\ UNCHANGED conn_tasks

Next ==
    \/ Connect
    \/ Disconnect
    \/ Call
    \/ InitAnswered
    \/ ExecAnswered
    \/ PullAnswered
    \/ InterruptAnswered
    \/ CloseAnswered
    \/ Return

Spec == Init /\ [][Next]_vars

NextCancel ==
    \/ Next
    \/ Cancel

(* the client with external cancellation of the invocation in flight *)
SpecCancel == Init /\ [][NextCancel]_vars

NextOps ==
    \/ Next
    \/ ExecuteCommand
    \/ OneShotAnswered

(* the four operations of the client that return a Response: connect,
   disconnect, execute_command, execute_persistent_command_async *)
SpecOps == Init /\ [][NextOps]_vars

NextCmd ==
    \/ Connect
    \/ Disconnect
    \/ Call
    \/ TraceMethod
    \/ WatchMethod
    \/ InitAnswered
    \/ ExecAnswered
    \/ ExecuteCommand
    \/ OneShotAnswered
    \/ Return

(* the command lines on their way to the server: every entry point that
   takes a command, followed up to the exec or async_exec request and its
   answer; the polling and the cleanup are left to Spec *)
SpecCmd == Init /\ [][NextCmd]_vars

(* ---------- execute_persistent_command_async, run concurrently -------- *)
(* RequestSession with a slip: the session is kept in the connection record
   of the client, which the invocations share *)
RequestSession_FromConnection(own) == conn_session_id

(* the sessionId an invocation puts into a payload: its local session_id *)
RequestSession(own) == own

(* a request of invocation i after its init_session *)
SentRequest(i, action, sid, cid) ==
    [inv |-> i, action |-> action, sessionId |-> RequestSession(sid), consumerId |-> cid]

(* the init_session request of invocation i: the payload names no session *)
SentInit(i) ==
    [inv |-> i, action |-> "init_session", sessionId |-> NoneVal, consumerId |-> NoneVal]

(* FailC with a slip: the except clause names the transport errors only,
   the AttributeError of a missing client leaves the coroutine *)
FailC_Escapes(i, inv) ==
    /\ invocations' = [invocations EXCEPT ![i] = [inv EXCEPT !.pc = "done", !.terminal = "Raised"]]
    /\ UNCHANGED sent

(* the except Exception block of invocation i, whose locals are inv *)
FailC(i, inv) ==
    /\ invocations' = [invocations EXCEPT ![i] = [inv EXCEPT !.pc = "done", !.terminal = "Failed"]]
    /\ UNCHANGED sent

(* the cleanup of invocation i begins: interrupt_job is POSTed.  With
   self._client reset to None by a disconnect both cleanup POSTs raise
   AttributeError, both are swallowed, and the invocation returns *)
CleanupC(i, inv) ==
    IF client_open
    THEN /\ sent' = sent \cup { SentRequest(i, "interrupt_job", inv.session_id, NoneVal) }
         /\ invocations' = [invocations EXCEPT ![i] = [inv EXCEPT !.pc = "await_interrupt"]]
    ELSE /\ invocations' = [invocations EXCEPT ![i] = [inv EXCEPT !.pc = "done", !.terminal = "Returned"]]
         /\ UNCHANGED sent

(* the top of the while loop of invocation i *)
EnterLoopC(i, inv, how) ==
    IF how = "continue" /\ LoopTest(inv.pull_count, inv.max_pulls)
    THEN IF client_open
         THEN /\ sent' = sent \cup { SentRequest(i, "pull_results", inv.session_id, inv.consumer_id) }
              /\ invocations' = [invocations EXCEPT ![i] = [inv EXCEPT !.pc = "await_pull"]]
         ELSE FailC(i, inv)
    ELSE CleanupC(i, inv)

(* invocation i is called: the connection check, then init_session *)
CallC(i) ==
    \E mp \in ConcurrentBudgets :
        /\ invocations[i].pc = "idle"
        /\ IF ~is_connected \/ ~client_open
           THEN /\ invocations' = [invocations EXCEPT ![i].pc = "done",
                                                      ![i].terminal = "NotStarted"]
                /\ UNCHANGED sent
           ELSE /\ invocations' = [invocations EXCEPT ![i].pc = "await_init",
                                                      ![i].max_pulls = mp,
                                                      ![i].inits = @ + 1]
                /\ sent' = sent \cup { SentInit(i) }
        /\ UNCHANGED << vars_sequential, server_sessions >>
        /\ UNCHANGED conn_tasks

(* the server answers the init_session of invocation i with a new session,
   and the invocation POSTs async_exec *)
InitAnsweredFreshC(i) ==
    LET n == Len(server_sessions) + 1
        r == [kind |-> "http", code |-> 200,
              sessionId |-> SessionName(n), consumerId |-> ConsumerName(n)]
        inv == [invocations[i] EXCEPT !.session_id = r.sessionId,
                                      !.consumer_id = r.consumerId]
    IN  /\ invocations[i].pc = "await_init"
        /\ InitFailure(r) = NoFailure
        /\ server_sessions' = Append(server_sessions, i)
        /\ IF client_open
           THEN /\ sent' = sent \cup { SentRequest(i, "async_exec", inv.session_id, NoneVal) }
                /\ invocations' = [invocations EXCEPT ![i] = [inv EXCEPT !.pc = "await_exec"]]
           ELSE FailC(i, inv)
        /\ UNCHANGED vars_sequential
        /\ UNCHANGED conn_tasks

(* the init_session of invocation i fails: no session, the invocation
   returns the error Response *)
InitAnsweredFailedC(i) ==
    \E r \in InitResponses :
        /\ invocations[i].pc = "await_init"
        /\ InitFailure(r) # NoFailure
        /\ FailC(i, invocations[i])
        /\ UNCHANGED << vars_sequential, server_sessions >>
        /\ UNCHANGED conn_tasks

(* the async_exec of invocation i is answered *)
ExecAnsweredC(i) ==
    \E r \in ExecResponses :
        /\ invocations[i].pc = "await_exec"
        /\ IF ExecFailure(r) # NoFailure
           THEN FailC(i, invocations[i])
           ELSE EnterLoopC(i, [invocations[i] EXCEPT !.pull_count = 0], "continue")
        /\ UNCHANGED << vars_sequential, server_sessions >>
        /\ UNCHANGED conn_tasks

(* a pull_results of invocation i is answered or times out *)
PullAnsweredC(i) ==
    \E r \in ConcurrentPullResponses :
        LET step == PullStep(r, <<>>, invocations[i].pull_count)
            inv == [invocations[i] EXCEPT !.pull_count = step.cnt]
        IN  /\ invocations[i].pc = "await_pull"
            /\ IF step.next = "raise"
               THEN FailC(i, inv)
               ELSE EnterLoopC(i, inv, step.next)
            /\ UNCHANGED << vars_sequential, server_sessions >>
            /\ UNCHANGED conn_tasks

(* the interrupt_job of invocation i is answered: close_session is POSTed *)
InterruptAnsweredC(i) ==
    \E r \in CleanupResponses :
        /\ invocations[i].pc = "await_interrupt"
        /\ IF ~CleanupSwallows(r)
           THEN FailC(i, invocations[i])
           ELSE IF client_open
           THEN /\ sent' = sent \cup { SentRequest(i, "close_session",
                                                   invocations[i].session_id, NoneVal) }
                /\ invocations' = [invocations EXCEPT ![i].pc = "await_close"]
           ELSE /\ invocations' = [invocations EXCEPT ![i].pc = "done",
                                                      ![i].terminal = "Returned"]
                /\ UNCHANGED sent
        /\ UNCHANGED << vars_sequential, server_sessions >>
        /\ UNCHANGED conn_tasks

(* the close_session of invocation i is answered: the invocation returns *)
CloseAnsweredC(i) ==
    \E r \in CleanupResponses :
        /\ invocations[i].pc = "await_close"
        /\ IF ~CleanupSwallows(r)
           THEN FailC(i, invocations[i])
           ELSE /\ invocations' = [invocations EXCEPT ![i].pc = "done",
                                                      ![i].terminal = "Returned"]
                /\ UNCHANGED sent
        /\ UNCHANGED << vars_sequential, server_sessions >>
        /\ UNCHANGED conn_tasks

(* the client after a successful connect(), no invocation called yet *)
InitConc ==
    /\ is_connected = TRUE
    /\ conn_session_id = NoneVal
    /\ client_open = TRUE
    /\ response = ConnectedResponse
    /\ pc = "idle"
    /\ max_pulls = 0
    /\ session_id = NoneVal
    /\ consumer_id = NoneVal
    /\ all_results = <<>>
    /\ pull_count = 0
    /\ terminal = "None"
    /\ command = NoCommand
    /\ full_command = NoCommand
    /\ call_args = NoArgs
    /\ requests = <<>>
    /\ answers = <<>>
    /\ invocations = [i \in Invocations |-> IdleInvocation]
    /\ server_sessions = <<>>
    /\ sent = {}
    /\ conn_tasks = [t \in ConnTasks |-> IdleTask]

NextConc ==
    \/ Disconnect
    \/ \E i \in Invocations : CallC(i)
    \/ \E i \in Invocations : InitAnsweredFreshC(i)
    \/ \E i \in Invocations : InitAnsweredFailedC(i)
    \/ \E i \in Invocations : ExecAnsweredC(i)
    \/ \E i \in Invocations : PullAnsweredC(i)
    \/ \E i \in Invocations : InterruptAnsweredC(i)
    \/ \E i \in Invocations : CloseAnsweredC(i)

(* several invocations of execute_persistent_command_async on one connected
   client, interleaved at their awaits with each other and with a
   disconnect *)
SpecConc == InitConc /\ [][NextConc]_vars

(* ------------- connect() and disconnect(), await by await ------------- *)
(* everything but the connection record, the handle and the tasks *)
not_connection ==
    << pc, locals, response, terminal, requests, answers, invocations, server_sessions, sent >>

(* connect() is called: with a client present it awaits disconnect(), which
   awaits aclose(); without, it creates the client and POSTs the health
   check *)
ConnectBegin(t) ==
    /\ conn_tasks[t].pc = "idle"
    /\ IF client_open
       THEN /\ conn_tasks' = [conn_tasks EXCEPT ![t].pc = "connect_closing"]
            /\ UNCHANGED client_open
       ELSE /\ conn_tasks' = [conn_tasks EXCEPT ![t].pc = "connect_health"]
            /\ client_open' = TRUE
    /\ UNCHANGED << is_connected, conn_session_id, not_connection >>

(* the aclose() awaited by the disconnect() inside connect() is over: on
   success the connection is reset, on failure disconnect() returns its
   error Response, which connect() does not look at; then the new client is
   created and the health check POSTed *)
ConnectClosed(t) ==
    \E closeOk \in BOOLEAN :
        /\ conn_tasks[t].pc = "connect_closing"
        /\ is_connected' = IF closeOk THEN FALSE ELSE is_connected
        /\ conn_session_id' = IF closeOk THEN NoneVal ELSE conn_session_id
        /\ client_open' = TRUE
        /\ conn_tasks' = [conn_tasks EXCEPT ![t].pc = "connect_health"]
        /\ UNCHANGED not_connection

(* the health check of connect() is answered *)
ConnectHealthAnswered(t) ==
    \E r \in HealthResponses :
        /\ conn_tasks[t].pc = "connect_health"
        /\ is_connected' = (r.kind = "http" /\ r.code = 200)
        /\ conn_tasks' = [conn_tasks EXCEPT ![t] =
               [pc |-> "done",
                status |-> IF r.kind = "http" /\ r.code = 200 THEN "success" ELSE "error"]]
        /\ UNCHANGED << client_open, conn_session_id, not_connection >>

(* disconnect() is called: with a client present it awaits aclose(),
   without it resets the connection record at once *)
DisconnectBegin(t) ==
    /\ conn_tasks[t].pc = "idle"
    /\ IF client_open
       THEN /\ conn_tasks' = [conn_tasks EXCEPT ![t].pc = "disconnect_closing"]
            /\ UNCHANGED << is_connected, conn_session_id >>
       ELSE /\ conn_tasks' = [conn_tasks EXCEPT ![t] = [pc |-> "done", status |-> "success"]]
            /\ is_connected' = FALSE
            /\ conn_session_id' = NoneVal
    /\ UNCHANGED << client_open, not_connection >>

(* the aclose() of disconnect() is over: the handle and the connection
   record are reset, or aclose() raised and nothing is *)
DisconnectClosed(t) ==
    \E closeOk \in BOOLEAN :
        /\ conn_tasks[t].pc = "disconnect_closing"
        /\ IF closeOk
           THEN /\ client_open' = FALSE
                /\ is_connected' = FALSE
                /\ conn_session_id' = NoneVal
                /\ conn_tasks' = [conn_tasks EXCEPT ![t] = [pc |-> "done", status |-> "success"]]
           ELSE /\ conn_tasks' = [conn_tasks EXCEPT ![t] = [pc |-> "done", status |-> "error"]]
                /\ UNCHANGED conn
        /\ UNCHANGED not_connection

(* the caller has the Response of the task *)
TaskReturn(t) ==
    /\ conn_tasks[t].pc = "done"
    /\ conn_tasks' = [conn_tasks EXCEPT ![t] = IdleTask]
    /\ UNCHANGED << conn, not_connection >>

NextConn ==
    \/ \E t \in ConnTasks : ConnectBegin(t)
    \/ \E t \in ConnTasks : ConnectClosed(t)
    \/ \E t \in ConnTasks : ConnectHealthAnswered(t)
    \/ \E t \in ConnTasks : DisconnectBegin(t)
    \/ \E t \in ConnTasks : DisconnectClosed(t)
    \/ \E t \in ConnTasks : TaskReturn(t)

(* calls of connect() and disconnect() on one client, interleaved at their
   awaits *)
SpecConn == Init /\ [][NextConn]_vars

(* the normalizer alone, on every command line of the bounded set *)
InitNorm ==
    /\ IdleClient
    /\ command \in CmdStrings

NextNorm == Normalize

SpecNorm == InitNorm /\ [][NextNorm]_vars

(* the normalizer applied to its own output: the line returned by the first
   call is the argument of the second *)
NormalizeAgain ==
    /\ pc = "normalized"
    /\ command' = full_command
    /\ full_command' = EnsurePersistentCommandLimits(full_command)
    /\ pc' = "normalized_twice"
    /\ UNCHANGED << conn, max_pulls, session_id, consumer_id, all_results, pull_count,
                    call_args, response, terminal, requests, answers >>
    /\ UNCHANGED concurrent
    /\ UNCHANGED conn_tasks

NextNormTwice ==
    \/ Normalize
    \/ NormalizeAgain

(* the normalizer applied once and then again to what it returned, on
   every command line of the bounded set *)
SpecNormTwice == InitNorm /\ [][NextNormTwice]_vars

(* ====================================================================== *)
(* Vocabulary of the properties, read off the request and answer logs      *)
(* ====================================================================== *)
Returned == pc = "done"

NumPulls == CountOf(requests, "pull_results")
NumInterrupts == CountOf(requests, "interrupt_job")
NumCloses == CountOf(requests, "close_session")

(* a session exists: init_session was answered with both identifiers *)
SessionExists ==
    /\ answers # <<>>
    /\ answers[1].kind = "http" /\ answers[1].code = 200
    /\ answers[1].sessionId \in SessionIds
    /\ answers[1].consumerId \in ConsumerIds

(* async_exec was answered 200 / SCHEDULED *)
WasScheduled ==
    /\ SessionExists
    /\ Len(answers) >= 2
    /\ answers[2].kind = "http" /\ answers[2].code = 200
    /\ answers[2].state = "SCHEDULED"

(* the n-th poll attempt has been answered *)
PullAnswered_n(n) ==
    /\ n >= 1
    /\ Len(answers) >= 2 + n
    /\ requests[2 + n].action = "pull_results"

NumPullAnswers == Cardinality({ i \in 1..Len(answers) : requests[i].action = "pull_results" })

(* the batch an answer carries: the results of an HTTP 200, else nothing *)
BatchOf(a) == IF a.kind = "http" /\ a.code = 200 THEN a.results ELSE <<>>

MarkerRecord == [type |-> "status", statusCode |-> 0]

BatchHasMarker(a) == \E i \in 1..Len(BatchOf(a)) : BatchOf(a)[i] = MarkerRecord

(* a quiet attempt: timed out, or HTTP 200 with an empty results list *)
IsQuiet(a) == a.kind = "timeout" \/ (a.kind = "http" /\ a.code = 200 /\ a.results = <<>>)

(* all records of the batches received in attempts 1..n, in order *)
RECURSIVE ReceivedThrough(_)
ReceivedThrough(n) ==
    IF n <= 0 THEN <<>> ELSE ReceivedThrough(n - 1) \o BatchOf(answers[2 + n])

ReceivedAll == ReceivedThrough(NumPullAnswers)

(* the cleanup of the session: exactly one interrupt_job, then exactly one
   close_session, both for the session of this invocation, as the last two
   requests *)
CleanedUpOnce ==
    /\ NumInterrupts = 1
    /\ NumCloses = 1
    /\ Len(requests) >= 2
    /\ requests[Len(requests) - 1] = InterruptRequest(answers[1].sessionId)
    /\ requests[Len(requests)] = CloseRequest(answers[1].sessionId)

(* ====================================================================== *)
(* Properties                                                              *)
(* ====================================================================== *)

(* C1: whenever an invocation in which init_session succeeded has returned,
   whatever the terminal state, exactly one interrupt_job and exactly one
   close_session were issued for its session. *)
C1_CleanupExactlyOnce ==
    (Returned /\ SessionExists) => CleanedUpOnce

(* C2: the number of pull_results requests of one invocation never exceeds
   max_pulls (no request at all when max_pulls is not positive). *)
C2_PullsWithinBudget ==
    NumPulls = 0 \/ NumPulls <= max_pulls

(* C3: when the session exists and async_exec is answered with a non-200
   status or a state other than SCHEDULED, the invocation returns status
   error, no pull_results is issued, and interrupt_job then close_session
   are issued for the session. *)
C3_ScheduleFailureCleansUp ==
    ( /\ SessionExists
      /\ Len(answers) >= 2
      /\ answers[2].kind = "http"
      /\ (answers[2].code # 200 \/ answers[2].state # "SCHEDULED") )
    => ( /\ NumPulls = 0
         /\ Returned => (response.status = "error" /\ CleanedUpOnce) )

(* C4: when init_session is answered with a non-200 status or with a body
   lacking sessionId or consumerId, the invocation has returned status error
   and init_session is the only request it ever issued. *)
C4_InitFailureStopsEverything ==
    ( /\ answers # <<>>
      /\ answers[1].kind = "http"
      /\ \/ answers[1].code # 200
         \/ answers[1].sessionId = NoneVal
         \/ answers[1].consumerId = NoneVal )
    => ( /\ Returned
         /\ response.status = "error"
         /\ requests = << InitRequest >> )

C4_Witness ==
    /\ Returned
    /\ answers # <<>>
    /\ answers[1].kind = "http" /\ answers[1].code = 200
    /\ answers[1].sessionId \in SessionIds
    /\ answers[1].consumerId = NoneVal
    /\ response.status = "error"

(* the n-th poll attempt is the first whose batch holds the terminal marker *)
FirstMarkerAt(n) ==
    /\ PullAnswered_n(n)
    /\ BatchHasMarker(answers[2 + n])
    /\ \A m \in 1..(n - 1) : ~BatchHasMarker(answers[2 + m])

(* C5: if the N-th poll attempt (1 <= N <= max_pulls) is the first whose
   batch holds a record of type status with statusCode 0, exactly N
   pull_results are issued, the cleanup follows, and the invocation returns
   status success with all records of the batches of attempts 1..N. *)
C5_StopsAtFirstMarker ==
    \A n \in 1..MaxPullRequests :
        (n <= max_pulls /\ FirstMarkerAt(n))
        => ( /\ NumPulls = n
             /\ pc \in {"await_interrupt", "await_close", "done"}
             /\ NumInterrupts = 1
             /\ Returned => ( /\ response.status = "success"
                              /\ response.data.results = ReceivedThrough(n)
                              /\ CleanedUpOnce ) )

C5_Witness ==
    /\ Returned
    /\ max_pulls >= 2
    /\ FirstMarkerAt(2)
    /\ Len(BatchOf(answers[3])) >= 1
    /\ Len(BatchOf(answers[4])) = 2
    /\ response.status = "success"

(* the first max_pulls poll attempts were all answered, each quietly *)
AllBudgetQuiet ==
    /\ WasScheduled
    /\ max_pulls >= 0
    /\ \A i \in 1..max_pulls : PullAnswered_n(i) /\ IsQuiet(answers[2 + i])

(* C6: if each of the first max_pulls poll attempts times out or returns
   HTTP 200 with an empty results list, exactly max_pulls attempts are made
   and the invocation returns status warning with an empty results list. *)
C6_QuietBudgetGivesWarning ==
    AllBudgetQuiet
    => ( /\ NumPulls = max_pulls
         /\ pc \in {"await_interrupt", "await_close", "done"}
         /\ Returned => ( /\ response.status = "warning"
                          /\ response.data.present
                          /\ response.data.results = <<>> ) )

C6_Witness ==
    /\ Returned
    /\ AllBudgetQuiet
    /\ max_pulls >= 2
    /\ answers[3].kind = "timeout"
    /\ answers[4].kind = "http"
    /\ response.status = "warning"

(* no batch received so far holds the terminal marker *)
NoMarkerSeen == \A i \in 1..NumPullAnswers : ~BatchHasMarker(answers[2 + i])

(* C7: when the attempt counter reaches max_pulls without a terminal marker
   and at least one record was aggregated, the invocation returns status
   success with every aggregated record and their number as the count; an
   invocation that ended Completed or Exhausted never returns status error. *)
C7_ExhaustedWithResultsIsSuccess ==
    Returned
    => ( /\ (pull_count = max_pulls /\ NoMarkerSeen /\ ReceivedAll # <<>>)
            => ( /\ terminal = "Exhausted"
                 /\ response.status = "success"
                 /\ response.data.results = ReceivedAll
                 /\ response.message.n = Len(ReceivedAll) )
         /\ response.status = "error" => terminal \notin {"Completed", "Exhausted"} )

C7_Witness ==
    /\ Returned
    /\ terminal = "Exhausted"
    /\ max_pulls >= 2
    /\ NoMarkerSeen
    /\ Len(ReceivedAll) >= 2
    /\ response.status = "success"

(* the step in which a poll attempt times out *)
TimeoutStep ==
    /\ pc = "await_pull"
    /\ Len(answers') = Len(answers) + 1
    /\ answers'[Len(answers')] = PollTimeout

(* every poll attempt answered so far timed out *)
AllTimeouts ==
    /\ WasScheduled
    /\ \A i \in 1..NumPullAnswers : answers[2 + i].kind = "timeout"

(* C8: a poll attempt that times out adds exactly one to the attempt counter
   and polling goes on (the next attempt while the budget lasts, else the
   cleanup) without an error Response; a server that only times out ends in
   Exhausted after max_pulls attempts. *)
C8_TimeoutConsumesOneAttempt ==
    /\ [][ TimeoutStep
           => ( /\ pull_count' = pull_count + 1
                /\ all_results' = all_results
                /\ response'.status # "error"
                /\ pc' = IF pull_count' < max_pulls THEN "await_pull" ELSE "await_interrupt" ) ]_vars
    /\ []( (Returned /\ AllTimeouts /\ max_pulls >= 0)
           => ( /\ terminal = "Exhausted"
                /\ NumPulls = max_pulls
                /\ pull_count = max_pulls
                /\ response.status # "error" ) )

C8_Witness ==
    /\ Returned
    /\ AllTimeouts
    /\ max_pulls >= 2
    /\ NumPullAnswers = max_pulls
    /\ terminal = "Exhausted"
    /\ response.status = "warning"

(* C9: a non-200 answer or a network failure on a pull_results request ends
   the polling: no further request is issued and the invocation has returned
   status error. *)
C9_PullTransportErrorIsFatal ==
    \A i \in 1..Len(answers) :
        ( /\ requests[i].action = "pull_results"
          /\ \/ answers[i].kind = "exc"
             \/ (answers[i].kind = "http" /\ answers[i].code # 200) )
        => ( /\ Len(requests) = i
             /\ Returned
             /\ response.status = "error" )

(* the cleanup has begun: interrupt_job was issued *)
CleanupBegun == NumInterrupts >= 1

InterruptFailed ==
    \E i \in 1..Len(answers) :
        requests[i].action = "interrupt_job" /\ answers[i].kind = "exc"

CloseFailed ==
    \E i \in 1..Len(answers) :
        requests[i].action = "close_session" /\ answers[i].kind = "exc"

(* C10: an exception of interrupt_job or of close_session never changes the
   returned Response, whose status and results depend on the received
   batches alone, and close_session is still issued after a failed
   interrupt_job. *)
C10_CleanupFailureIsSwallowed ==
    /\ InterruptFailed => (NumCloses = 1 /\ pc \in {"await_close", "done"})
    /\ (Returned /\ CleanupBegun)
       => ( /\ response.status = (IF ReceivedAll # <<>> THEN "success" ELSE "warning")
            /\ response.data.results = ReceivedAll
            /\ response.error = NoError )

C10_Witness ==
    /\ Returned
    /\ InterruptFailed
    /\ CloseFailed
    /\ Len(ReceivedAll) >= 1
    /\ response.status = "success"

(* an exception was raised while an answer was handled: a network failure
   or an unparsable body on init_session, async_exec or a poll, a non-200
   init_session or async_exec, missing identifiers, a state other than
   SCHEDULED *)
InitRaised ==
    /\ Len(answers) >= 1
    /\ \/ answers[1].kind \in {"exc", "badjson"}
       \/ /\ answers[1].kind = "http"
          /\ \/ answers[1].code # 200
             \/ answers[1].sessionId \in {NoneVal, ""}
             \/ answers[1].consumerId \in {NoneVal, ""}

ExecRaised ==
    /\ Len(answers) >= 2
    /\ \/ answers[2].kind \in {"exc", "badjson"}
       \/ /\ answers[2].kind = "http"
          /\ (answers[2].code # 200 \/ answers[2].state # "SCHEDULED")

PullRaised ==
    \E i \in 1..Len(answers) :
        requests[i].action = "pull_results" /\ answers[i].kind \in {"exc", "badjson"}

(* C11: every failure raised at session init, scheduling, a poll or the
   parsing of an answer ends the invocation with a returned Response of
   status error and a non-empty error text; what an invocation hands back is
   always a Response. *)
C11_FailuresBecomeErrorResponses ==
    /\ (InitRaised \/ ExecRaised \/ PullRaised)
       => ( /\ Returned
            /\ response.status = "error"
            /\ response.error.prefix \notin {NoneVal, ""} )
    /\ Returned => response.status \in {"success", "warning", "error"}

C11_Witness ==
    /\ Returned
    /\ NumPulls = 2
    /\ answers[4].kind = "badjson"
    /\ response.status = "error"

(* the request the invocation was suspended on when it ended *)
LastRequestAction == IF requests = <<>> THEN NoneVal ELSE requests[Len(requests)].action

(* C12: an invocation cancelled after its session was created and before
   the cleanup began still issues interrupt_job and close_session for it. *)
C12_CancelStillCleansUp ==
    ( /\ Returned
      /\ terminal = "Cancelled"
      /\ SessionExists
      /\ LastRequestAction \in {"async_exec", "pull_results"} )
    => (NumInterrupts >= 1 /\ NumCloses >= 1)

(* C13: the poll loop terminates for every sequence of answers.  Stated by
   its variant: an answered poll either ends the polling or uses up one unit
   of the budget, so that no run polls forever. *)
C13_EveryPollMakesProgress ==
    [][ (pc = "await_pull" /\ pc' = "await_pull")
        => (max_pulls - pull_count' < max_pulls - pull_count) ]_vars

Rank(action) ==
    CASE action = "init_session" -> 1
      [] action = "async_exec" -> 2
      [] action = "pull_results" -> 3
      [] action = "interrupt_job" -> 4
      [] action = "close_session" -> 5

(* C14: the requests of one invocation are init_session, async_exec, the
   polls one after the other, interrupt_job, close_session, in this order,
   and a request is issued only when every earlier one has been answered. *)
C14_RequestsInPhaseOrder ==
    /\ requests # <<>> => requests[1].action = "init_session"
    /\ Len(requests) >= 2 => requests[2].action = "async_exec"
    /\ \A i \in 1..(Len(requests) - 1) :
          \/ Rank(requests[i].action) < Rank(requests[i + 1].action)
          \/ (requests[i].action = "pull_results" /\ requests[i + 1].action = "pull_results")
    /\ \A i \in 2..Len(requests) :
          requests[i].action = "close_session" => requests[i - 1].action = "interrupt_job"
    /\ Len(answers) <= Len(requests)
    /\ Len(requests) - Len(answers) <= 1
    /\ (Len(requests) = Len(answers) + 1)
          <=> (pc \in {"await_init", "await_exec", "await_pull", "await_interrupt", "await_close"})

C14_Witness ==
    /\ Returned
    /\ Len(requests) = 6
    /\ NumPulls = 2
    /\ requests[5].action = "interrupt_job"
    /\ requests[6].action = "close_session"
    /\ Len(answers) = 6

(* the words of a command line, and the default limits as the
   documentation gives them *)
WordsOf(s) == [ i \in 1..Cardinality({ j \in 1..Len(s) : s[j] # " " }) |->
                  s[CHOOSE j \in 1..Len(s) :
                        s[j] # " " /\ Cardinality({ k \in 1..j : s[k] # " " }) = i] ]

HasWord(s, w) == \E j \in 1..Len(s) : s[j] = w

DocumentedLimit(verb) ==
    CASE verb = "watch" -> "5"
      [] verb = "trace" -> "3"
      [] verb = "tt" -> "10"
      [] verb = "stack" -> "3"
      [] verb = "jfr" -> "1"

Normalized == pc = "normalized"

(* the words, each but the last followed by one blank *)
SingleSpaced(ws) ==
    [ i \in 1..(IF ws = <<>> THEN 0 ELSE 2 * Len(ws) - 1) |->
        IF i % 2 = 1 THEN ws[(i + 1) \div 2] ELSE " " ]

(* C16: for a command whose first word is watch, trace, tt, stack or jfr and
   which has no word -n, the normalizer returns the verb, -n, the verb's
   default count (watch 5, trace 3, tt 10, stack 3, jfr 1) and the original
   arguments in their order, joined by single blanks. *)
C16_DefaultLimitInserted ==
    ( /\ Normalized
      /\ WordsOf(command) # <<>>
      /\ WordsOf(command)[1] \in {"watch", "trace", "tt", "stack", "jfr"}
      /\ ~HasWord(command, "-n") )
    => full_command =
          SingleSpaced(<< WordsOf(command)[1], "-n", DocumentedLimit(WordsOf(command)[1]) >>
                       \o Tail(WordsOf(command)))

C16_Witness ==
    /\ Normalized
    /\ command = << "trace", " ", "com.example.*", " ", "get*" >>
    /\ full_command = << "trace", " ", "-n", " ", "3", " ", "com.example.*", " ", "get*" >>

(* C17: a command line that has the word -n anywhere is returned
   unchanged, whatever its verb and whatever follows the flag. *)
C17_ExplicitLimitKept ==
    (Normalized /\ HasWord(command, "-n")) => full_command = command

C17_Witness ==
    /\ Normalized
    /\ command = << "watch", " ", "get*", " ", "-n" >>
    /\ full_command = command

(* C18: a command line whose first word is not a persistent verb, and an
   empty or blank-only one, is returned unchanged. *)
C18_OtherCommandsUntouched ==
    ( /\ Normalized
      /\ \/ WordsOf(command) = <<>>
         \/ WordsOf(command)[1] \notin {"watch", "trace", "tt", "stack", "jfr"} )
    => full_command = command

C18_Witness ==
    /\ Normalized
    /\ command = << " ", "jvm", " ", " ", "get*" >>
    /\ full_command = command

(* C15: every async_exec request whose command starts with a persistent
   verb carries the word -n, whoever called execute_persistent_command_async:
   a user of the client, trace_method or watch_method. *)
C15_ScheduledCommandsAreLimited ==
    \A i \in 1..Len(requests) :
        ( /\ requests[i].action = "async_exec"
          /\ WordsOf(requests[i].command) # <<>>
          /\ WordsOf(requests[i].command)[1] \in {"watch", "trace", "tt", "stack", "jfr"} )
        => HasWord(requests[i].command, "-n")

(* C19: a returned Response with status error has an error text, one with
   status success or warning has none, for connect, disconnect,
   execute_command and execute_persistent_command_async. *)
C19_ErrorFieldMatchesStatus ==
    /\ response.status = "error"
       => (response.error # [prefix |-> "None", cause |-> "None"]
           /\ response.error.prefix \notin {"None", ""})
    /\ response.status \in {"success", "warning"}
       => response.error = [prefix |-> "None", cause |-> "None"]
    /\ Returned => response.status \in {"success", "warning", "error"}

C19_Witness ==
    /\ Returned
    /\ LastRequestAction = "exec"
    /\ answers # <<>>
    /\ answers[1].kind = "http" /\ answers[1].code = 500
    /\ response.status = "error"


(* ------------------------ concurrent invocations ---------------------- *)
(* the sessions the server created for the init_session of invocation i *)
OwnSessions(i) == { n \in 1..Len(server_sessions) : server_sessions[n] = i }

(* the requests invocation i has POSTed after its init_session *)
SessionRequests(i) == { q \in sent : q.inv = i /\ q.action # "init_session" }

InitRequestsOf(i) == { q \in sent : q.inv = i /\ q.action = "init_session" }

Called(i) == invocations[i].pc # "idle"

RefusedNotConnected(i) == invocations[i].terminal = "NotStarted"

(* every request after init_session carries the ids the server returned to
   this invocation's own init_session *)
CarriesOwnSession(i) ==
    \A q \in SessionRequests(i) :
        \E n \in OwnSessions(i) :
            /\ q.sessionId = SessionName(n)
            /\ q.action = "pull_results" => q.consumerId = ConsumerName(n)

(* no session id appears in the requests of two invocations *)
NoSessionShared ==
    \A q1 \in sent, q2 \in sent :
        (/\ q1.action # "init_session"
         /\ q2.action # "init_session"
         /\ q1.sessionId = q2.sessionId) => q1.inv = q2.inv

(* C20 as stated: under any interleaving of concurrent invocations on one
   client, EVERY invocation issues exactly one init_session request, every
   later request of it carries the sessionId (and, for pulls, the
   consumerId) returned by its own init_session, and no session is used by
   two invocations or by a later one *)
C20_EveryInvocationInitsOnce ==
    /\ \A i \in Invocations :
        /\ Called(i) => (invocations[i].inits = 1 /\ Cardinality(InitRequestsOf(i)) = 1)
        /\ CarriesOwnSession(i)
    /\ NoSessionShared

(* C20 amended: an invocation that passes the connection check issues
   exactly one init_session request and an invocation refused by the check
   issues no request at all; every async_exec, pull_results, interrupt_job
   and close_session request of an invocation carries the sessionId (and,
   for pulls, the consumerId) returned by its own init_session; no session
   is used by two invocations or by a later one *)
C20_SessionsAreOwned ==
    /\ \A i \in Invocations :
        /\ (Called(i) /\ ~RefusedNotConnected(i)) =>
               (invocations[i].inits = 1 /\ Cardinality(InitRequestsOf(i)) = 1)
        /\ RefusedNotConnected(i) => { q \in sent : q.inv = i } = {}
        /\ Cardinality(OwnSessions(i)) <= 1
        /\ CarriesOwnSession(i)
    /\ NoSessionShared

(* two invocations poll at the same time, each on its own session, the
   sessions having been created in the opposite order of the calls' ids *)
C20_Witness ==
    /\ invocations[1].pc = "await_pull"
    /\ invocations[2].pc = "await_pull"
    /\ server_sessions[1] = 2
    /\ server_sessions[2] = 1
    /\ \E q \in sent : q.inv = 1 /\ q.action = "pull_results" /\ q.sessionId = SessionName(2)
    /\ \E q \in sent : q.inv = 2 /\ q.action = "pull_results" /\ q.sessionId = SessionName(1)


(* ---------------------------- aggregation ----------------------------- *)
(* C21: the results an invocation returns are the concatenation, in arrival
   order, of the batches its poll attempts received, each batch in its own
   order: nothing dropped, duplicated or reordered.  The running aggregate
   obeys the same equation after every answered poll. *)
C21_ResultsAreBatchesInOrder ==
    /\ pc \in {"await_pull", "await_interrupt", "await_close"} => all_results = ReceivedAll
    /\ (Returned /\ terminal \in {"Completed", "Exhausted"})
       => ( /\ response.status \in {"success", "warning"}
            /\ response.data.results = ReceivedAll
            /\ Len(response.data.results) = response.message.n )

C21_Witness ==
    /\ Returned
    /\ response.status = "success"
    /\ NumPullAnswers >= 2
    /\ BatchOf(answers[3]) # <<>>
    /\ BatchOf(answers[4]) # <<>>
    /\ BatchOf(answers[3])[1] # BatchOf(answers[4])[1]
    /\ Len(response.data.results) >= 2

(* the last k elements of a sequence *)
Suffix(s, k) == SubSeq(s, Len(s) - k + 1, Len(s))

(* C22: a batch holding the terminal marker is kept whole, the records
   behind the marker included, and no poll follows it: the aggregate, and
   then the returned results, end with that batch. *)
C22_WholeMarkerBatchKept ==
    \A n \in 1..MaxPullRequests :
        (PullAnswered_n(n) /\ BatchHasMarker(answers[2 + n]))
        => ( /\ NumPulls = n
             /\ pc \in {"await_interrupt", "await_close", "done"}
             /\ pc # "done" => /\ Len(all_results) >= Len(BatchOf(answers[2 + n]))
                               /\ Suffix(all_results, Len(BatchOf(answers[2 + n])))
                                      = BatchOf(answers[2 + n])
             /\ Returned => /\ response.status = "success"
                            /\ Len(response.data.results) >= Len(BatchOf(answers[2 + n]))
                            /\ Suffix(response.data.results, Len(BatchOf(answers[2 + n])))
                                   = BatchOf(answers[2 + n]) )

C22_Witness ==
    /\ Returned
    /\ NumPullAnswers = 2
    /\ BatchOf(answers[4]) = << MarkerRecord, [type |-> "result"] >>
    /\ response.data.results[Len(response.data.results)] = [type |-> "result"]

(* the step in which a poll is answered with a non-empty batch that holds no
   record of type status with statusCode 0 *)
InterimBatchStep ==
    /\ pc = "await_pull"
    /\ Len(answers') = Len(answers) + 1
    /\ answers'[Len(answers')].kind = "http"
    /\ answers'[Len(answers')].code = 200
    /\ answers'[Len(answers')].results # <<>>
    /\ ~BatchHasMarker(answers'[Len(answers')])

(* C23: a non-empty batch without a record of type status and statusCode 0
   (a status record with another code included) is appended, counts as one
   attempt, and the next poll is issued while the budget lasts; with the
   budget used up the cleanup begins. *)
C23_OnlyStatusZeroStops ==
    [][InterimBatchStep
       => ( /\ all_results' = all_results \o answers'[Len(answers')].results
            /\ pull_count' = pull_count + 1
            /\ IF pull_count + 1 < max_pulls
               THEN /\ pc' = "await_pull"
                    /\ requests' = Append(requests, PullRequest(session_id, consumer_id))
               ELSE /\ pc' = "await_interrupt"
                    /\ CountOf(requests', "pull_results") = CountOf(requests, "pull_results") )]_vars

C23_Witness ==
    /\ PullAnswered_n(1)
    /\ answers[3].kind = "http" /\ answers[3].code = 200
    /\ answers[3].results = << [type |-> "status", statusCode |-> 1] >>
    /\ Len(requests) >= 4
    /\ requests[4].action = "pull_results"
    /\ pull_count >= 1


(* ------------------------ the one-shot command line ------------------- *)
(* the words of the command line execute_command was called with: the
   command, then the args that are neither None nor blank *)
RawWords ==
    WordsOf(command) \o
    SelectSeq(call_args, LAMBDA x : x # "None" /\ x # "" /\ x # " ")

ExecRequestSent == requests # <<>> /\ requests[1].action = "exec"

(* C24: an exec request of execute_command whose command line (command plus
   non-blank args) starts with watch, trace, tt, stack or jfr has the word
   -n: a line that has -n already is sent with its words as they were, its
   own count included; a line without gets -n and the verb's default count
   behind the verb. *)
C24_ExecRequestsAreLimited ==
    (ExecRequestSent /\ RawWords # <<>> /\ RawWords[1] \in {"watch", "trace", "tt", "stack", "jfr"})
    => ( /\ HasWord(requests[1].command, "-n")
         /\ IF \E i \in 1..Len(RawWords) : RawWords[i] = "-n"
            THEN WordsOf(requests[1].command) = RawWords
            ELSE WordsOf(requests[1].command)
                     = << RawWords[1], "-n", DocumentedLimit(RawWords[1]) >> \o Tail(RawWords) )

(* trace_method in synchronous mode: its -n 2 reaches the server as given *)
C24_Witness ==
    /\ ExecRequestSent
    /\ command = << "trace" >>
    /\ call_args = << "com.example.*", "get*", "-n", "2" >>
    /\ WordsOf(requests[1].command) = << "trace", "com.example.*", "get*", "-n", "2" >>


(* --------------------------- not connected ---------------------------- *)
(* an operation that takes a command is called: the client leaves idle *)
CommandCalled == pc = "idle" /\ pc' # "idle"

NotConnected == ~is_connected \/ ~client_open

(* C25: called on a client that is not connected (is_connected false or no
   HTTP client handle), execute_persistent_command_async and execute_command
   return at once a Response with status error, send no request, create no
   session, and leave the connection record and the handle as they were. *)
C25_NotConnectedIsRefused ==
    [][(CommandCalled /\ NotConnected)
       => ( /\ pc' = "done"
            /\ response'.status = "error"
            /\ response'.error.prefix = "Not connected to Arthas, please call connect first"
            /\ requests' = <<>>
            /\ session_id' = "None"
            /\ is_connected' = is_connected
            /\ client_open' = client_open
            /\ conn_session_id' = conn_session_id )]_vars

(* refused with the handle present: a connect whose health check failed *)
C25_Witness ==
    /\ pc = "done"
    /\ terminal = "NotStarted"
    /\ client_open
    /\ ~is_connected
    /\ requests = <<>>
    /\ response.status = "error"
    /\ max_pulls > 0


(* ------------------------------ warning ------------------------------- *)
(* some answered poll of the invocation carried a non-empty batch *)
SomeBatchReceived == \E i \in 1..NumPullAnswers : BatchOf(answers[2 + i]) # <<>>

MarkerReceived == \E i \in 1..NumPullAnswers : BatchHasMarker(answers[2 + i])

(* C26: execute_persistent_command_async returns status warning only when
   no poll attempt of the invocation returned a non-empty batch; an
   invocation that saw the terminal marker returns success, never warning. *)
C26_WarningOnlyWithoutResults ==
    Returned
    => ( /\ response.status = "warning" => ~SomeBatchReceived
         /\ (SomeBatchReceived /\ response.status # "error") => response.status = "success"
         /\ MarkerReceived => response.status = "success" )

(* a single interim record, then the budget runs out: success, not warning *)
C26_Witness ==
    /\ Returned
    /\ NumPullAnswers >= 2
    /\ Len(ReceivedAll) = 1
    /\ ~MarkerReceived
    /\ response.status = "success"


(* ------------------- disconnect under an orchestration ---------------- *)
RequestsOf(i, log) == { q \in log : q.inv = i }

(* invocation i holds a session and waits for an answer *)
SuspendedWithSession(i) ==
    /\ invocations[i].session_id # "None"
    /\ invocations[i].pc \in {"await_exec", "await_pull", "await_interrupt", "await_close"}

(* C27: once disconnect() has completed (for a reconnect through
   connect_arthas: the disconnect of the old client, the new connection
   being another client object), an orchestration of that client that is
   suspended with its session sends no further request when it resumes, and
   it returns a Response: the error Response, or from the cleanup the
   outcome Response. *)
C27_DisconnectedOrchestrationReturns ==
    [][\A i \in Invocations :
          (SuspendedWithSession(i) /\ ~client_open /\ invocations'[i] # invocations[i])
          => ( /\ RequestsOf(i, sent') = RequestsOf(i, sent)
               /\ invocations'[i].pc = "done"
               /\ invocations'[i].terminal \in {"Failed", "Returned"} )]_vars

(* an invocation that polled and returned from its cleanup without an
   interrupt_job or close_session ever sent: the client was gone *)
C27_Witness ==
    /\ ~client_open
    /\ invocations[1].pc = "done"
    /\ invocations[1].terminal = "Returned"
    /\ invocations[1].session_id # "None"
    /\ \E q \in sent : q.inv = 1 /\ q.action = "pull_results"
    /\ ~\E q \in sent : q.inv = 1 /\ q.action \in {"interrupt_job", "close_session"}


(* --------------------- connected implies a handle --------------------- *)
(* C28: in every reachable state, under any sequence and any interleaving
   of connect() and disconnect() calls, is_connected implies that the HTTP
   client handle is present. *)
C28_ConnectedHasHandle == is_connected => client_open


(* ------------------- the session of the connection -------------------- *)
(* C29: connection.session_id is None in every reachable state: no
   operation stores a session id in the connection record, so no exec
   request of the one-shot path carries a sessionId, and the session of a
   persistent invocation never shows in the record. *)
C29_ConnectionHasNoSession ==
    /\ conn_session_id = "None"
    /\ \A i \in 1..Len(requests) :
           requests[i].action = "exec" => requests[i].sessionId = "None"
    /\ session_id # "None" => conn_session_id # session_id

(* an orchestration holds its session, the connection record holds none *)
C29_Witness ==
    /\ pc = "await_pull"
    /\ session_id = "s1"
    /\ is_connected
    /\ conn_session_id = "None"


(* ------------------------- no budget, no poll ------------------------- *)
(* C30: called with max_pulls <= 0, once init_session and async_exec have
   succeeded, the invocation issues no pull_results, issues interrupt_job
   and close_session once each, and returns status warning with an empty
   result list. *)
C30_NoBudgetNoPoll ==
    (WasScheduled /\ max_pulls <= 0)
    => ( /\ NumPulls = 0
         /\ pc \in {"await_interrupt", "await_close", "done"}
         /\ NumInterrupts = 1
         /\ NumCloses = (IF pc = "await_interrupt" THEN 0 ELSE 1)
         /\ Len(requests) = 2 + NumInterrupts + NumCloses
         /\ Returned => /\ response.status = "warning"
                        /\ response.data.results = <<>>
                        /\ CleanedUpOnce )

C30_Witness ==
    /\ Returned
    /\ WasScheduled
    /\ max_pulls < 0
    /\ requests[3].action = "interrupt_job"
    /\ requests[4].action = "close_session"
    /\ response.status = "warning"


(* ----------------------------- disconnect ----------------------------- *)
(* the step of a disconnect() call, known by the Response it returns *)
DisconnectStep ==
    /\ pc = "idle"
    /\ pc' = "idle"
    /\ \/ (response'.status = "success" /\ response'.message.text = "Disconnected from Arthas")
       \/ (response'.status = "error" /\ response'.error.prefix = "Failed to disconnect")

(* the step of a connect() call *)
ConnectStep ==
    /\ pc = "idle"
    /\ pc' = "idle"
    /\ \/ (response'.status = "success" /\ response'.message.text = "Connected to Arthas WebConsole")
       \/ (response'.status = "error" /\ response'.error.prefix = "Connection failed")

(* C31: disconnect() leaves is_connected false, session_id None and no HTTP
   client handle; called on a client already in that state it returns
   status success and changes nothing; connect() on a client that has a
   handle goes through that disconnect before it creates the new handle,
   so it ends with a handle and no session. *)
C31_DisconnectResets ==
    [][ /\ DisconnectStep
           => ( /\ ~is_connected'
                /\ conn_session_id' = "None"
                /\ ~client_open'
                /\ (~is_connected /\ conn_session_id = "None" /\ ~client_open)
                   => response'.status = "success" )
        /\ ConnectStep
           => ( /\ client_open'
                /\ conn_session_id' = "None" ) ]_vars


(* --------------------------- normalizing twice ------------------------ *)
NormalizedTwice == pc = "normalized_twice"

(* the number of pieces of a line that are the word -n *)
NumLimitFlags(s) == Cardinality({ j \in 1..Len(s) : s[j] = "-n" })

(* C32: the normalizer is idempotent: applied to the line it returned it
   returns that line again, piece for piece, so normalizing never puts a
   second -n into a line it has limited. *)
C32_NormalizerIsIdempotent ==
    NormalizedTwice
    => ( /\ full_command = command
         /\ NumLimitFlags(full_command) = NumLimitFlags(command) )

(* a line the first call limited, with arguments behind the count, came
   back from the second call as it went in *)
C32_Witness ==
    /\ NormalizedTwice
    /\ command = << "watch", " ", "-n", " ", "5", " ", "com.example.*", " ", "get*" >>
    /\ full_command = command

====
